---- MODULE Spec2Model ----
(***************************************************************************)
(* Model of ossAI_transcribe: the command-line front-end                   *)
(* (src/transcribe.py) and the desktop front-end (src/gui_transcribe.py).  *)
(*                                                                         *)
(* Strings are sequences of one-character strings, so that formatting,     *)
(* slicing, replacing, stripping and lower-casing are computed as the      *)
(* code computes them.  A time offset is an integer number of half         *)
(* milliseconds (0.0005 s), which is enough to exercise the rounding of    *)
(* int(round(seconds * 1000)) and the microsecond field of timedelta.      *)
(***************************************************************************)
EXTENDS Integers, Sequences, FiniteSets, TLC

VARIABLES
    \* ---- timestamp formatters
    t,          \* the seconds argument, in half milliseconds
    which,      \* the formatter that was called last ("none" before a call)
    res,        \* the string it returned
    \* ---- write_srt
    segs,       \* the segments handed to the writer: [start, end, text]
    wFront,     \* the front-end whose write_srt runs: "cli" or "gui"
    wPc,        \* "open", "loop", "closed", "error"
    wI,         \* segments consumed by the for loop so far
    wFile,      \* the characters written to the file so far
    \* ---- device / compute-type selection
    cfgFront,   \* "cli" or "gui"
    argDevice,  \* --device (CLI) or the device argument of TranscribeWorker
    argCompute, \* --compute-type (CLI only)
    isArmMac,   \* sys.platform == "darwin" and machine() is arm64/aarch64
    localModel, \* LOCAL_MODEL_DIR exists and is not empty (GUI only)
    ctor,       \* the WhisperModel(...) call made, or NoCall
    \* ---- App (UI thread)
    audio_path, \* self.audio_path, kept as the chosen file's directory;
                \* <<>> is None
    out_dir,    \* self.out_dir, a string
    user_chose_out_dir,
    btn_enabled,\* self.btn_run.isEnabled()
    inFlight,   \* workers started whose done/failed has not been delivered
    queue,      \* signals emitted by the worker, not yet delivered to the UI
    \* ---- TranscribeWorker (worker thread) and its environment
    wk,         \* the worker's arguments: [out_dir, srt, vtt]
    wkPc,       \* where run() stands; "idle" when no worker runs
    out,        \* run()'s local out, a directory string
    attempts,   \* the file writes this run made, in order
    emitted,    \* the kinds of the signals this run emitted, in order
    manifest,   \* the paths named by the done message
    dirs,       \* the directories that exist
    defaultWritable \* creating and writing under DEFAULT_OUT cannot fail

fmtVars == <<t, which, res>>

srtVars == <<segs, wFront, wPc, wI, wFile>>

cfgVars == <<cfgFront, argDevice, argCompute, isArmMac, localModel, ctor>>

appVars == <<audio_path, out_dir, user_chose_out_dir, btn_enabled, inFlight,
             queue>>

wkVars == <<wk, wkPc, out, attempts, emitted, manifest, dirs,
            defaultWritable>>

guiVars == <<appVars, wkVars>>

vars == <<fmtVars, srtVars, cfgVars, guiVars>>

(***************************************************************************)
(* Characters and decimal rendering                                        *)
(***************************************************************************)
DigitChars == <<"0", "1", "2", "3", "4", "5", "6", "7", "8", "9">>

IsDigit(c) == \E i \in 1..10 : DigitChars[i] = c

DigitVal(c) == (CHOOSE i \in 1..10 : DigitChars[i] = c) - 1

RECURSIVE Digits(_)
\* "%d" % n for n >= 0
Digits(n) ==
    IF n < 10 THEN <<DigitChars[n + 1]>>
    ELSE Digits(n \div 10) \o <<DigitChars[(n % 10) + 1]>>

RECURSIVE ZeroFill(_, _)
ZeroFill(s, w) == IF Len(s) >= w THEN s ELSE ZeroFill(<<"0">> \o s, w)

\* f"{n:0wd}" / "%0wd" % n: the sign counts in the width, zeros follow the sign
Pad(n, w) ==
    IF n < 0 THEN <<"-">> \o ZeroFill(Digits(-n), w - 1)
    ELSE ZeroFill(Digits(n), w)

\* "%d" % n
Dec(n) == IF n < 0 THEN <<"-">> \o Digits(-n) ELSE Digits(n)

\* Python's round() of h/2, h an integer: round half to even
RoundHalfEven(h) ==
    LET q == h \div 2
    IN  IF h % 2 = 0 THEN q
        ELSE IF q % 2 = 0 THEN q ELSE q + 1

(***************************************************************************)
(* src/transcribe.py: _format_hhmmss_ms, srt_ts, vtt_ts                    *)
(***************************************************************************)
\* the clamp of lines 10-11 left out
ClampMs_NoClamp(total_ms) == total_ms

ClampMs(total_ms) == IF total_ms < 0 THEN 0 ELSE total_ms

_format_hhmmss_ms(seconds, sep) ==
    LET total_ms == ClampMs(RoundHalfEven(seconds))
        hh   == total_ms \div 3600000
        rem1 == total_ms % 3600000
        mm   == rem1 \div 60000
        rem2 == rem1 % 60000
        ss   == rem2 \div 1000
        ms   == rem2 % 1000
    IN  Pad(hh, 2) \o <<":">> \o Pad(mm, 2) \o <<":">> \o Pad(ss, 2)
            \o <<sep>> \o Pad(ms, 3)

cli_srt_ts(s) == _format_hhmmss_ms(s, ",")

cli_vtt_ts(s) == _format_hhmmss_ms(s, ".")

(***************************************************************************)
(* src/gui_transcribe.py: srt_ts, write_vtt.vtt_ts, on datetime.timedelta  *)
(***************************************************************************)
HalfMsPerDay == 172800000

\* timedelta(seconds=s), normalised: days, 0 <= seconds < 86400,
\* 0 <= microseconds < 1000000
timedelta(s) ==
    LET r == s % HalfMsPerDay
    IN  [days |-> s \div HalfMsPerDay,
         seconds |-> r \div 2000,
         microseconds |-> (r % 2000) * 500]

\* str(td): "[D day[s], ]H:MM:SS[.ffffff]"
TdStr(td) ==
    LET hh == td.seconds \div 3600
        mm == (td.seconds % 3600) \div 60
        ss == td.seconds % 60
        plural == IF td.days = 1 \/ td.days = -1 THEN <<>> ELSE <<"s">>
        dayPart == IF td.days = 0 THEN <<>>
                   ELSE Dec(td.days) \o <<" ", "d", "a", "y">> \o plural
                            \o <<",", " ">>
        usPart == IF td.microseconds = 0 THEN <<>>
                  ELSE <<".">> \o Pad(td.microseconds, 6)
    IN  dayPart \o Dec(hh) \o <<":">> \o Pad(mm, 2) \o <<":">> \o Pad(ss, 2)
            \o usPart

\* s[:-3]
DropLast3(s) == IF Len(s) <= 3 THEN <<>> ELSE SubSeq(s, 1, Len(s) - 3)

\* s.replace('.', ',')
ReplaceDot(s) == [i \in 1..Len(s) |-> IF s[i] = "." THEN "," ELSE s[i]]

gui_srt_ts(s) == ReplaceDot(DropLast3(TdStr(timedelta(s))))

gui_vtt_ts(s) == DropLast3(TdStr(timedelta(s)))

(***************************************************************************)
(* Formatter calls                                                         *)
(***************************************************************************)
MaxDelta == 3

\* Offsets around every carry of the decomposition: 0, 1 s, 1 min, 1 h,
\* 24 h, 100 h (in half milliseconds), and below zero.
Landmarks == {0, 2000, 120000, 7200000, 172800000, 720000000}

TimeInputs ==
    {b + d : b \in Landmarks, d \in (0 - MaxDelta)..MaxDelta}

FmtIdle == t = 0 /\ which = "none" /\ res = <<>>

SrtIdle ==
    segs = <<>> /\ wFront = "cli" /\ wPc = "closed" /\ wI = 0 /\ wFile = <<>>

NoCall == [model |-> "none", device |-> "none", compute |-> <<>>]

CfgIdle ==
    /\ cfgFront = "cli" /\ argDevice = "metal" /\ argCompute = <<>>
    /\ isArmMac = FALSE /\ localModel = FALSE /\ ctor = NoCall

NoWorker == [out_dir |-> <<>>, srt |-> FALSE, vtt |-> FALSE]

GuiIdle ==
    /\ audio_path = <<>> /\ out_dir = <<>> /\ user_chose_out_dir = FALSE
    /\ btn_enabled = TRUE /\ inFlight = 0 /\ queue = <<>>
    /\ wk = NoWorker /\ wkPc = "idle" /\ out = <<>> /\ attempts = <<>>
    /\ emitted = <<>> /\ manifest = <<>> /\ dirs = {} /\ defaultWritable = TRUE

FmtInit ==
    /\ t \in TimeInputs
    /\ which = "none"
    /\ res = <<>>
    /\ SrtIdle
    /\ CfgIdle
    /\ GuiIdle

CallCliSrt ==
    /\ which = "none"
    /\ which' = "cli_srt"
    /\ res' = cli_srt_ts(t)
    /\ UNCHANGED <<t, srtVars, cfgVars, guiVars>>

CallCliVtt ==
    /\ which = "none"
    /\ which' = "cli_vtt"
    /\ res' = cli_vtt_ts(t)
    /\ UNCHANGED <<t, srtVars, cfgVars, guiVars>>

CallGuiSrt ==
    /\ which = "none"
    /\ which' = "gui_srt"
    /\ res' = gui_srt_ts(t)
    /\ UNCHANGED <<t, srtVars, cfgVars, guiVars>>

CallGuiVtt ==
    /\ which = "none"
    /\ which' = "gui_vtt"
    /\ res' = gui_vtt_ts(t)
    /\ UNCHANGED <<t, srtVars, cfgVars, guiVars>>

FmtNext == CallCliSrt \/ CallCliVtt \/ CallGuiSrt \/ CallGuiVtt

SpecFmt == FmtInit /\ [][FmtNext]_vars
(***************************************************************************)
(* Properties of the formatters                                            *)
(***************************************************************************)
SepOf(w) == IF w \in {"cli_srt", "gui_srt"} THEN "," ELSE "."

RECURSIVE NumVal(_)
NumVal(s) ==
    IF Len(s) = 0 THEN 0
    ELSE 10 * NumVal(SubSeq(s, 1, Len(s) - 1)) + DigitVal(s[Len(s)])

AllDigits(s) == \A i \in 1..Len(s) : IsDigit(s[i])

\* s reads H..HH:MM:SS<sep>mmm with at least two hour digits, MM, SS < 60
HasShape(s, sep) ==
    LET n == Len(s)
    IN  /\ n >= 12
        /\ AllDigits(SubSeq(s, 1, n - 10))
        /\ s[n - 9] = ":"
        /\ AllDigits(SubSeq(s, n - 8, n - 7))
        /\ NumVal(SubSeq(s, n - 8, n - 7)) < 60
        /\ s[n - 6] = ":"
        /\ AllDigits(SubSeq(s, n - 5, n - 4))
        /\ NumVal(SubSeq(s, n - 5, n - 4)) < 60
        /\ s[n - 3] = sep
        /\ AllDigits(SubSeq(s, n - 2, n))

\* the offset in milliseconds a well-shaped string reads as
ShapeMs(s) ==
    LET n == Len(s)
    IN  NumVal(SubSeq(s, 1, n - 10)) * 3600000
          + NumVal(SubSeq(s, n - 8, n - 7)) * 60000
          + NumVal(SubSeq(s, n - 5, n - 4)) * 1000
          + NumVal(SubSeq(s, n - 2, n))

WholeMs == t >= 0 /\ t % 2 = 0

\* C6: for every non-negative offset of a whole number of milliseconds, each
\* of the four formatters (CLI srt_ts/vtt_ts, GUI srt_ts/vtt_ts) returns
\* HH:MM:SS<sep>mmm: hours of at least 2 digits and never wrapped at 24 h,
\* minutes and seconds of 2 digits below 60, 3 millisecond digits, and the
\* separator of its dialect.
C6_AllFormattersShape ==
    (which # "none" /\ WholeMs) =>
        (HasShape(res, SepOf(which)) /\ ShapeMs(res) = t \div 2)

\* The part of C6 that is about the CLI formatter alone.
CliFormatterShape ==
    (which \in {"cli_srt", "cli_vtt"} /\ WholeMs) =>
        (HasShape(res, SepOf(which)) /\ ShapeMs(res) = t \div 2)

ZeroTs(sep) ==
    <<"0", "0", ":", "0", "0", ":", "0", "0", sep, "0", "0", "0">>

NL == "\n"

IsSpace(c) == c \in {" ", "\t", NL}

RECURSIVE LStrip(_)
LStrip(s) ==
    IF Len(s) > 0 /\ IsSpace(s[1]) THEN LStrip(Tail(s)) ELSE s

RECURSIVE RStrip(_)
RStrip(s) ==
    IF Len(s) > 0 /\ IsSpace(s[Len(s)])
    THEN RStrip(SubSeq(s, 1, Len(s) - 1)) ELSE s

\* str.strip()
Strip(s) == RStrip(LStrip(s))

srt_ts(front, s) == IF front = "cli" THEN cli_srt_ts(s) ELSE gui_srt_ts(s)

Arrow == <<" ", "-", "-", ">", " ">>

\* enumerate(segments, 1) starting at 0 instead
SrtBlock_FromZero(front, i, seg) ==
    Dec(i - 1) \o <<NL>>
        \o srt_ts(front, seg.start) \o Arrow \o srt_ts(front, seg.end) \o <<NL>>
        \o Strip(seg.text) \o <<NL, NL>>

\* f"{i}\n{srt_ts(seg.start)} --> {srt_ts(seg.end)}\n{seg.text.strip()}\n\n"
SrtBlock(front, i, seg) ==
    Dec(i) \o <<NL>>
        \o srt_ts(front, seg.start) \o Arrow \o srt_ts(front, seg.end) \o <<NL>>
        \o Strip(seg.text) \o <<NL, NL>>

MaxSegs == 2

MaxTextLen == 2

TextChars == {" ", "x"}

Texts == UNION {[1..n -> TextChars] : n \in 0..MaxTextLen}

\* (start, end) in half milliseconds, end >= start >= 0
Spans == {<<0, 3000>>, <<3000, 7200000>>}

Segments == {[start |-> sp[1], end |-> sp[2], text |-> tx] :
                 sp \in Spans, tx \in Texts}

SrtInit ==
    /\ segs \in UNION {[1..n -> Segments] : n \in 0..MaxSegs}
    /\ wFront \in {"cli", "gui"}
    /\ wPc = "open"
    /\ wI = 0
    /\ wFile = <<>>
    /\ FmtIdle
    /\ CfgIdle
    /\ GuiIdle

\* open(path, "w", encoding="utf-8") succeeds: the file is created empty
SrtOpen ==
    /\ wPc = "open"
    /\ wPc' = "loop"
    /\ UNCHANGED <<segs, wFront, wI, wFile, fmtVars, cfgVars, guiVars>>

\* open() raises OSError: nothing is written
SrtOpenFails ==
    /\ wPc = "open"
    /\ wPc' = "error"
    /\ UNCHANGED <<segs, wFront, wI, wFile, fmtVars, cfgVars, guiVars>>

\* one iteration of the for loop: one f.write of the segment's block
SrtWrite ==
    /\ wPc = "loop"
    /\ wI < Len(segs)
    /\ wI' = wI + 1
    /\ wFile' = wFile \o SrtBlock(wFront, wI + 1, segs[wI + 1])
    /\ UNCHANGED <<segs, wFront, wPc, fmtVars, cfgVars, guiVars>>

\* f.write raises OSError (a full disk): the with block closes the file with
\* what was written before
SrtWriteFails ==
    /\ wPc = "loop"
    /\ wI < Len(segs)
    /\ wPc' = "error"
    /\ UNCHANGED <<segs, wFront, wI, wFile, fmtVars, cfgVars, guiVars>>

\* the iterator is exhausted; the with block closes the file
SrtClose ==
    /\ wPc = "loop"
    /\ wI = Len(segs)
    /\ wPc' = "closed"
    /\ UNCHANGED <<segs, wFront, wI, wFile, fmtVars, cfgVars, guiVars>>

SrtNext == SrtOpen \/ SrtOpenFails \/ SrtWrite \/ SrtWriteFails \/ SrtClose

SpecSrt == SrtInit /\ [][SrtNext]_vars

(***************************************************************************)
(* Properties of write_srt                                                 *)
(***************************************************************************)
RECURSIVE SplitLines(_, _)
\* the newline-terminated lines of s; cur is the line being collected
SplitLines(s, cur) ==
    IF Len(s) = 0 THEN (IF Len(cur) = 0 THEN <<>> ELSE <<cur>>)
    ELSE IF s[1] = NL THEN <<cur>> \o SplitLines(Tail(s), <<>>)
    ELSE SplitLines(Tail(s), Append(cur, s[1]))

\* r is text with its leading and trailing whitespace removed
IsTrimOf(r, text) ==
    /\ Len(r) > 0 => ~IsSpace(r[1]) /\ ~IsSpace(r[Len(r)])
    /\ \E a \in 0..Len(text) :
          /\ a + Len(r) <= Len(text)
          /\ \A i \in 1..Len(r) : r[i] = text[a + i]
          /\ \A i \in 1..a : IsSpace(text[i])
          /\ \A i \in (a + Len(r) + 1)..Len(text) : IsSpace(text[i])

\* C8: write_srt of either front-end, run to the end on n segments, has
\* written exactly n blocks in input order; block k is the index line k, the
\* line "<start> --> <end>" of segment k in the comma style, the trimmed
\* text of segment k and a blank line.
C8_SrtBlocksInOrder ==
    wPc = "closed" =>
        LET lines == SplitLines(wFile, <<>>)
            n == Len(segs)
        IN  /\ Len(wFile) > 0 => wFile[Len(wFile)] = NL
            /\ Len(lines) = 4 * n
            /\ \A k \in 1..n :
                  /\ AllDigits(lines[4 * k - 3])
                  /\ NumVal(lines[4 * k - 3]) = k
                  /\ lines[4 * k - 2] =
                        srt_ts(wFront, segs[k].start) \o Arrow
                            \o srt_ts(wFront, segs[k].end)
                  /\ IsTrimOf(lines[4 * k - 1], segs[k].text)
                  /\ lines[4 * k] = <<>>

\* a complete run on two or more segments, one of them with padded text
C8_Witness ==
    /\ wPc = "closed"
    /\ Len(segs) >= 2
    /\ wI = Len(segs)
    /\ \E k \in 1..Len(segs) : Strip(segs[k].text) # segs[k].text
    /\ segs[1] # segs[2]
(***************************************************************************)
(* Device and compute-type selection: main of src/transcribe.py (61-83),   *)
(* TranscribeWorker.__init__ and _load_model of src/gui_transcribe.py      *)
(***************************************************************************)
UpperChars == <<"F", "L", "O", "A", "T", "I", "N">>

LowerChars == <<"f", "l", "o", "a", "t", "i", "n">>

LowerChar(c) ==
    IF \E i \in 1..Len(UpperChars) : UpperChars[i] = c
    THEN LowerChars[CHOOSE i \in 1..Len(UpperChars) : UpperChars[i] = c]
    ELSE c

\* str.lower()
Lower(s) == [i \in 1..Len(s) |-> LowerChar(s[i])]

\* str.startswith(p)
StartsWith(s, p) == Len(s) >= Len(p) /\ SubSeq(s, 1, Len(p)) = p

FLOAT16 == <<"f", "l", "o", "a", "t", "1", "6">>

INT8 == <<"i", "n", "t", "8">>

\* the test of line 69 without .lower()
IsCpuFloat16_CaseSensitive(device, compute_type) ==
    device = "cpu" /\ StartsWith(compute_type, FLOAT16)

\* args.device == "cpu" and args.compute_type.lower().startswith("float16")
IsCpuFloat16(device, compute_type) ==
    device = "cpu" /\ StartsWith(Lower(compute_type), FLOAT16)

\* lines 64-66: resolve "auto"
ResolveAuto(device, arm) ==
    IF device = "auto" THEN (IF arm THEN "metal" ELSE "cpu") ELSE device

\* lines 69-70: guard the invalid CPU + float16 combination
GuardCompute(device, compute_type) ==
    IF IsCpuFloat16(device, compute_type) THEN INT8 ELSE compute_type

\* gui __init__, line 61
WorkerDevice(device) ==
    IF device \in {"cpu", "cuda", "auto"} THEN device ELSE "auto"

\* gui _load_model, line 64: self.device or "auto"
ChosenDevice(device) == IF device = "" THEN "auto" ELSE device

\* gui _load_model, line 65
GuiCompute(chosen_device) == IF chosen_device = "cuda" THEN FLOAT16 ELSE INT8

CliDevices == {"cpu", "metal", "cuda", "auto"}

GuiDevices == {"cpu", "cuda", "auto", "metal", ""}

\* --compute-type is free text
ComputeTypes ==
    { FLOAT16,
      <<"F", "L", "O", "A", "T", "1", "6">>,
      <<"F", "l", "o", "a", "t", "1", "6">>,
      <<"f", "l", "o", "a", "T", "1", "6">>,
      <<"f", "l", "o", "a", "t", "1", "6", "_", "x">>,
      <<"F", "L", "O", "A", "T", "1", "6", "_", "X">>,
      <<"f", "l", "o", "a", "t", "1">>,
      <<"f", "l", "o", "a", "t", "3", "2">>,
      <<"i", "n", "t", "8", "_", "f", "l", "o", "a", "t", "1", "6">>,
      <<"I", "N", "T", "8", "_", "F", "L", "O", "A", "T", "1", "6">>,
      INT8,
      <<"i", "n", "t", "1", "6">>,
      <<>> }

CfgInit ==
    /\ cfgFront \in {"cli", "gui"}
    /\ \/ /\ cfgFront = "cli"
          /\ argDevice \in CliDevices
          /\ argCompute \in ComputeTypes
          /\ isArmMac \in BOOLEAN
          /\ localModel = FALSE
       \/ /\ cfgFront = "gui"
          /\ argDevice \in GuiDevices
          /\ argCompute = <<>>
          /\ isArmMac = FALSE
          /\ localModel \in BOOLEAN
    /\ ctor = NoCall
    /\ FmtIdle
    /\ SrtIdle
    /\ GuiIdle

\* main, lines 61-83: resolve the device, guard the combination, build the
\* model
CliLoadModel ==
    /\ cfgFront = "cli"
    /\ ctor = NoCall
    /\ LET device == ResolveAuto(argDevice, isArmMac)
       IN  ctor' = [model |-> "name", device |-> device,
                    compute |-> GuardCompute(device, argCompute)]
    /\ UNCHANGED <<cfgFront, argDevice, argCompute, isArmMac, localModel,
                   fmtVars, srtVars, guiVars>>

\* TranscribeWorker(...)._load_model(): the bundled model when present,
\* else the model by name
GuiLoadModel ==
    /\ cfgFront = "gui"
    /\ ctor = NoCall
    /\ LET chosen_device == ChosenDevice(WorkerDevice(argDevice))
       IN  ctor' = [model |-> IF localModel THEN "local" ELSE "name",
                    device |-> chosen_device,
                    compute |-> GuiCompute(chosen_device)]
    /\ UNCHANGED <<cfgFront, argDevice, argCompute, isArmMac, localModel,
                   fmtVars, srtVars, guiVars>>

CfgNext == CliLoadModel \/ GuiLoadModel

SpecCfg == CfgInit /\ [][CfgNext]_vars

(***************************************************************************)
(* Properties of the selection                                             *)
(***************************************************************************)
\* s begins with "float16" in any mix of cases
BeginsFloat16AnyCase(s) ==
    /\ Len(s) >= 7
    /\ s[1] \in {"f", "F"} /\ s[2] \in {"l", "L"} /\ s[3] \in {"o", "O"}
    /\ s[4] \in {"a", "A"} /\ s[5] \in {"t", "T"}
    /\ s[6] = "1" /\ s[7] = "6"

\* C10: the model constructor is never called with device "cpu" and a
\* compute type beginning with "float16" in any case; the CLI has resolved
\* "auto" before the call and keeps every other compute type as given; the
\* GUI passes float16 exactly when the device is "cuda", int8 otherwise.
C10_NeverCpuFloat16 ==
    ctor # NoCall =>
        /\ ~(ctor.device = "cpu" /\ BeginsFloat16AnyCase(ctor.compute))
        /\ cfgFront = "cli" =>
              /\ ctor.device \in {"cpu", "metal", "cuda"}
              /\ argDevice = "auto" =>
                    ctor.device = (IF isArmMac THEN "metal" ELSE "cpu")
              /\ ctor.compute \in {argCompute, INT8}
              /\ ctor.compute # argCompute =>
                    (ctor.device = "cpu" /\ BeginsFloat16AnyCase(argCompute))
        /\ cfgFront = "gui" =>
              /\ ctor.device = "cuda" => ctor.compute = FLOAT16
              /\ ctor.device # "cuda" => ctor.compute = INT8

\* the CLI got --device auto --compute-type FLOAT16 off Apple silicon and
\* called the constructor with cpu and int8
C10_Witness ==
    /\ cfgFront = "cli"
    /\ argDevice = "auto"
    /\ ~isArmMac
    /\ argCompute = <<"F", "L", "O", "A", "T", "1", "6">>
    /\ ctor # NoCall
    /\ ctor.device = "cpu"
    /\ ctor.compute = INT8
(***************************************************************************)
(* pathlib, as far as src/gui_transcribe.py uses it                        *)
(***************************************************************************)
\* Path.home() / "WhisperLite", with /h for the home directory
DEFAULT_OUT == <<"/", "h", "/", "W">>

RECURSIVE SplitSlash(_, _)
\* s.split("/"); cur is the component being collected
SplitSlash(s, cur) ==
    IF Len(s) = 0 THEN <<cur>>
    ELSE IF s[1] = "/" THEN <<cur>> \o SplitSlash(Tail(s), <<>>)
    ELSE SplitSlash(Tail(s), Append(cur, s[1]))

RECURSIVE LeadingSlashes(_)
LeadingSlashes(s) ==
    IF Len(s) > 0 /\ s[1] = "/" THEN 1 + LeadingSlashes(Tail(s)) ELSE 0

\* the root of a POSIX path: "//" for exactly two leading slashes
PathRoot(s) ==
    LET n == LeadingSlashes(s)
    IN  IF n = 0 THEN <<>> ELSE IF n = 2 THEN <<"/", "/">> ELSE <<"/">>

IsName(c) == c # <<>> /\ c # <<".">>

\* the components of a path: empty ones and "." are dropped
PathParts(s) == SelectSeq(SplitSlash(s, <<>>), IsName)

RECURSIVE JoinSlash(_)
JoinSlash(parts) ==
    IF Len(parts) = 0 THEN <<>>
    ELSE IF Len(parts) = 1 THEN parts[1]
    ELSE parts[1] \o <<"/">> \o JoinSlash(Tail(parts))

PathOf(root, parts) ==
    IF root = <<>> /\ parts = <<>> THEN <<".">> ELSE root \o JoinSlash(parts)

\* str(Path(s))
PathStr(s) == PathOf(PathRoot(s), PathParts(s))

\* the directories p.mkdir(parents=True, exist_ok=True) leaves in existence
MkdirSet(p) ==
    {PathOf(PathRoot(p), SubSeq(PathParts(p), 1, k)) :
         k \in 0..Len(PathParts(p))}

\* out / f"{base}.{ext}"
FilePath(dir, ext) == [dir |-> dir, ext |-> ext]

(***************************************************************************)
(* TranscribeWorker.run (src/gui_transcribe.py:87-141)                     *)
(*                                                                         *)
(* The writers are handed the segments of the external library and raise   *)
(* nothing but OSError: at open() (nothing written) or in a write (a       *)
(* partial file).  Creating or writing under a directory can fail unless   *)
(* it is DEFAULT_OUT and defaultWritable holds; mkdir of a directory that  *)
(* exists does not fail.                                                   *)
(***************************************************************************)
\* lines 90-92
ResolveOut(o) ==
    IF PathStr(o) \in {<<"/">>, <<>>} THEN DEFAULT_OUT ELSE PathStr(o)

\* the retry made in the directory that has just failed
FallbackDir_SameDir(o) == o

\* line 128: fb = DEFAULT_OUT
FallbackDir(o) == DEFAULT_OUT

MayFail(dir) == ~(dir = DEFAULT_OUT /\ defaultWritable)

Emit(kind) ==
    /\ emitted' = Append(emitted, kind)
    /\ queue' = Append(queue, kind)

Emit2(k1, k2) ==
    /\ emitted' = emitted \o <<k1, k2>>
    /\ queue' = queue \o <<k1, k2>>

Attempt(phase, dir, ext, outcome) ==
    attempts' = Append(attempts,
        [phase |-> phase, path |-> FilePath(dir, ext), outcome |-> outcome])

\* the statement reached after the write of ext succeeded
AfterWrite(prefix, ext) ==
    IF ext = "txt" /\ wk.srt THEN prefix \o "srt"
    ELSE IF ext \in {"txt", "srt"} /\ wk.vtt THEN prefix \o "vtt"
    ELSE prefix \o "done"

\* a failed write of the fallback block tried again
AfterFallbackError_Retry(ext) == "fb_" \o ext

\* an exception in the except OSError block reaches the outer handler
AfterFallbackError(ext) == "fail"

appUnch ==
    UNCHANGED <<audio_path, out_dir, user_chose_out_dir, btn_enabled, inFlight>>

otherUnch == UNCHANGED <<fmtVars, srtVars, cfgVars>>

\* lines 90-93: out resolved and created
WkMkdir ==
    /\ wkPc = "resolve"
    /\ out' = ResolveOut(wk.out_dir)
    /\ dirs' = dirs \cup MkdirSet(out')
    /\ wkPc' = "load"
    /\ UNCHANGED <<wk, attempts, emitted, manifest, defaultWritable, queue>>
    /\ appUnch /\ otherUnch

\* line 93 raises OSError
WkMkdirFails ==
    /\ wkPc = "resolve"
    /\ out' = ResolveOut(wk.out_dir)
    /\ out' \notin dirs
    /\ MayFail(out')
    /\ wkPc' = "fail"
    /\ UNCHANGED <<wk, attempts, emitted, manifest, dirs, defaultWritable,
                   queue>>
    /\ appUnch /\ otherUnch

\* lines 100-101: two progress signals, then the model is built
WkLoadModel ==
    /\ wkPc = "load"
    /\ Emit2("progress", "progress")
    /\ wkPc' = "transcribe"
    /\ UNCHANGED <<wk, out, attempts, manifest, dirs, defaultWritable>>
    /\ appUnch /\ otherUnch

\* WhisperModel(...) raises
WkLoadModelFails ==
    /\ wkPc = "load"
    /\ Emit2("progress", "progress")
    /\ wkPc' = "fail"
    /\ UNCHANGED <<wk, out, attempts, manifest, dirs, defaultWritable>>
    /\ appUnch /\ otherUnch

\* lines 103-114: transcribe, list(segments), the last progress signals
WkTranscribe ==
    /\ wkPc = "transcribe"
    /\ emitted' = emitted \o <<"progress", "progress", "progress">>
    /\ queue' = queue \o <<"progress", "progress", "progress">>
    /\ wkPc' = "p_txt"
    /\ UNCHANGED <<wk, out, attempts, manifest, dirs, defaultWritable>>
    /\ appUnch /\ otherUnch

\* model.transcribe or list(segments) raises
WkTranscribeFails ==
    /\ wkPc = "transcribe"
    /\ Emit("progress")
    /\ wkPc' = "fail"
    /\ UNCHANGED <<wk, out, attempts, manifest, dirs, defaultWritable>>
    /\ appUnch /\ otherUnch

\* lines 118-122: one writer of the try block returns
WkWritePrimary ==
    /\ \E ext \in {"txt", "srt", "vtt"} :
          /\ wkPc = "p_" \o ext
          /\ Attempt("primary", out, ext, "ok")
          /\ wkPc' = AfterWrite("p_", ext)
    /\ UNCHANGED <<wk, out, emitted, manifest, dirs, defaultWritable, queue>>
    /\ appUnch /\ otherUnch

\* one writer of the try block raises OSError: line 127
WkWritePrimaryFails ==
    /\ \E ext \in {"txt", "srt", "vtt"}, oc \in {"open_fail", "mid_fail"} :
          /\ wkPc = "p_" \o ext
          /\ MayFail(out)
          /\ Attempt("primary", out, ext, oc)
    /\ wkPc' = "fb_mkdir"
    /\ UNCHANGED <<wk, out, emitted, manifest, dirs, defaultWritable, queue>>
    /\ appUnch /\ otherUnch

\* lines 123-126: the manifest of the primary paths, done
WkDonePrimary ==
    /\ wkPc = "p_done"
    /\ manifest' = <<FilePath(out, "txt")>>
          \o (IF wk.srt THEN <<FilePath(out, "srt")>> ELSE <<>>)
          \o (IF wk.vtt THEN <<FilePath(out, "vtt")>> ELSE <<>>)
    /\ Emit("done")
    /\ wkPc' = "finished"
    /\ UNCHANGED <<wk, out, attempts, dirs, defaultWritable>>
    /\ appUnch /\ otherUnch

\* lines 128-129
WkFallbackMkdir ==
    /\ wkPc = "fb_mkdir"
    /\ dirs' = dirs \cup MkdirSet(FallbackDir(out))
    /\ wkPc' = "fb_txt"
    /\ UNCHANGED <<wk, out, attempts, emitted, manifest, defaultWritable,
                   queue>>
    /\ appUnch /\ otherUnch

\* line 129 raises OSError
WkFallbackMkdirFails ==
    /\ wkPc = "fb_mkdir"
    /\ FallbackDir(out) \notin dirs
    /\ MayFail(FallbackDir(out))
    /\ Attempt("fallback", FallbackDir(out), "mkdir", "open_fail")
    /\ wkPc' = "fail"
    /\ UNCHANGED <<wk, out, emitted, manifest, dirs, defaultWritable, queue>>
    /\ appUnch /\ otherUnch

\* lines 130-136: one writer of the except block returns; its path joins msg
WkWriteFallback ==
    /\ \E ext \in {"txt", "srt", "vtt"} :
          /\ wkPc = "fb_" \o ext
          /\ Attempt("fallback", FallbackDir(out), ext, "ok")
          /\ manifest' = Append(manifest, FilePath(FallbackDir(out), ext))
          /\ wkPc' = AfterWrite("fb_", ext)
    /\ UNCHANGED <<wk, out, emitted, dirs, defaultWritable, queue>>
    /\ appUnch /\ otherUnch

\* one writer of the except block raises
WkWriteFallbackFails ==
    /\ \E ext \in {"txt", "srt", "vtt"}, oc \in {"open_fail", "mid_fail"} :
          /\ wkPc = "fb_" \o ext
          /\ MayFail(FallbackDir(out))
          /\ Attempt("fallback", FallbackDir(out), ext, oc)
          /\ wkPc' = AfterFallbackError(ext)
    /\ UNCHANGED <<wk, out, emitted, manifest, dirs, defaultWritable, queue>>
    /\ appUnch /\ otherUnch

\* line 137
WkDoneFallback ==
    /\ wkPc = "fb_done"
    /\ Emit("done")
    /\ wkPc' = "finished"
    /\ UNCHANGED <<wk, out, attempts, manifest, dirs, defaultWritable>>
    /\ appUnch /\ otherUnch

\* lines 139-141: except Exception
WkFailed ==
    /\ wkPc = "fail"
    /\ Emit("failed")
    /\ wkPc' = "finished"
    /\ UNCHANGED <<wk, out, attempts, manifest, dirs, defaultWritable>>
    /\ appUnch /\ otherUnch

WorkerStep ==
    \/ WkMkdir \/ WkMkdirFails
    \/ WkLoadModel \/ WkLoadModelFails
    \/ WkTranscribe \/ WkTranscribeFails
    \/ WkWritePrimary \/ WkWritePrimaryFails \/ WkDonePrimary
    \/ WkFallbackMkdir \/ WkFallbackMkdirFails
    \/ WkWriteFallback \/ WkWriteFallbackFails \/ WkDoneFallback
    \/ WkFailed

MaxPathLen == 2

PathChars == {"/", ".", "d"}

\* every short out_dir string, and the default directory itself
OutDirArgs ==
    UNION {[1..n -> PathChars] : n \in 0..MaxPathLen} \cup {DEFAULT_OUT}

\* the root and the working directory exist
BaseDirs == {<<"/">>, <<".">>}

\* one worker, built on any arguments and started
WorkerInit ==
    /\ wk \in [out_dir : OutDirArgs, srt : BOOLEAN, vtt : BOOLEAN]
    /\ wkPc = "resolve"
    /\ out = <<>>
    /\ attempts = <<>> /\ emitted = <<>> /\ manifest = <<>>
    /\ dirs \in {BaseDirs,
                 BaseDirs \cup MkdirSet(DEFAULT_OUT),
                 BaseDirs \cup MkdirSet(ResolveOut(wk.out_dir))}
    /\ defaultWritable \in BOOLEAN
    /\ audio_path = <<>> /\ out_dir = <<>> /\ user_chose_out_dir = FALSE
    /\ btn_enabled = FALSE /\ inFlight = 1 /\ queue = <<>>
    /\ FmtIdle /\ SrtIdle /\ CfgIdle

SpecWorker == WorkerInit /\ [][WorkerStep]_vars
(***************************************************************************)
(* Properties of TranscribeWorker.run                                      *)
(***************************************************************************)
\* the files the flags ask for
Requested ==
    {"txt"} \cup (IF wk.srt THEN {"srt"} ELSE {})
            \cup (IF wk.vtt THEN {"vtt"} ELSE {})

IsWrite(a) == a.path.ext \in {"txt", "srt", "vtt"}

PrimaryOsError ==
    \E i \in 1..Len(attempts) :
        attempts[i].phase = "primary" /\ attempts[i].outcome # "ok"

FallbackError ==
    \E i \in 1..Len(attempts) :
        attempts[i].phase = "fallback" /\ attempts[i].outcome # "ok"

Has(seq, x) == \E i \in 1..Len(seq) : seq[i] = x

\* what this run left at path: the outcome of its last write there
\* (open() failing leaves what was there before)
RECURSIVE FileStateUpTo(_, _)
FileStateUpTo(path, n) ==
    IF n = 0 THEN "absent"
    ELSE LET a == attempts[n]
         IN  IF a.path = path /\ a.outcome = "ok" THEN "full"
             ELSE IF a.path = path /\ a.outcome = "mid_fail" THEN "partial"
             ELSE FileStateUpTo(path, n - 1)

FileState(path) == FileStateUpTo(path, Len(attempts))

\* C1: when a write under the resolved directory raised an OS error and the
\* default directory is writable, the run emits done and never failed,
\* every requested file is complete under DEFAULT_OUT and the manifest
\* names only paths under DEFAULT_OUT.
C1_FallbackSucceeds ==
    (PrimaryOsError /\ defaultWritable) =>
        /\ wkPc # "fail"
        /\ ~Has(emitted, "failed")
        /\ \A i \in 1..Len(manifest) : manifest[i].dir = DEFAULT_OUT
        /\ wkPc = "finished" =>
              /\ emitted[Len(emitted)] = "done"
              /\ \A ext \in Requested :
                    FileState(FilePath(DEFAULT_OUT, ext)) = "full"
              /\ {manifest[i] : i \in 1..Len(manifest)} =
                    {FilePath(DEFAULT_OUT, ext) : ext \in Requested}

\* the txt file was written at the primary place, a later primary write
\* raised, and the run ended with all three files under DEFAULT_OUT
C1_Witness ==
    /\ wkPc = "finished"
    /\ defaultWritable
    /\ wk.srt /\ wk.vtt
    /\ Len(attempts) = 5
    /\ attempts[1].outcome = "ok"
    /\ attempts[2].phase = "primary" /\ attempts[2].outcome = "mid_fail"
    /\ Has(emitted, "done")

\* C2: a write failure is recovered at most once.  A failure in the
\* fallback block (mkdir or a write) is the run's last attempt and ends it
\* with failed and without done; no file is attempted twice in the same
\* block, and nothing is attempted at the primary place after a failure.
C2_RecoveredAtMostOnce ==
    /\ \A i \in 1..Len(attempts) :
          (attempts[i].phase = "fallback" /\ attempts[i].outcome # "ok") =>
              /\ i = Len(attempts)
              /\ wkPc \in {"fail", "finished"}
              /\ ~Has(emitted, "done")
              /\ wkPc = "finished" => emitted[Len(emitted)] = "failed"
    /\ \A i, j \in 1..Len(attempts) :
          (i < j /\ attempts[i].phase = attempts[j].phase) =>
              attempts[i].path.ext # attempts[j].path.ext
    /\ \A i, j \in 1..Len(attempts) :
          (i < j /\ attempts[i].outcome # "ok") =>
              attempts[j].phase = "fallback"

\* a primary write failed, then the second write of the fallback failed,
\* and the run has reported failed
C2_Witness ==
    /\ wkPc = "finished"
    /\ PrimaryOsError
    /\ Len(attempts) >= 3
    /\ attempts[Len(attempts)].phase = "fallback"
    /\ attempts[Len(attempts)].path.ext = "srt"
    /\ attempts[Len(attempts)].outcome # "ok"
    /\ emitted[Len(emitted)] = "failed"

\* the order txt, srt, vtt
ExtRank(ext) == IF ext = "txt" THEN 1 ELSE IF ext = "srt" THEN 2 ELSE 3

\* C4: when the run reports done, the manifest is the ordered list of the
\* files the run wrote: each listed path is a complete file, every file the
\* run wrote completely (primary or fallback) is listed, in the order txt,
\* srt, vtt.
C4_ManifestIsWhatWasWritten ==
    (wkPc = "finished" /\ Has(emitted, "done")) =>
        /\ \A i \in 1..Len(manifest) : FileState(manifest[i]) = "full"
        /\ \A i \in 1..Len(attempts) :
              (IsWrite(attempts[i]) /\ attempts[i].outcome = "ok") =>
                  Has(manifest, attempts[i].path)
        /\ \A i, j \in 1..Len(manifest) :
              i < j => ExtRank(manifest[i].ext) < ExtRank(manifest[j].ext)

\* The part of C4 the code keeps: the manifest lists, in order, exactly the
\* requested files at the place of the block that completed, all complete.
ManifestOfCompletedBlock ==
    (wkPc = "finished" /\ Has(emitted, "done")) =>
        LET place == IF PrimaryOsError THEN DEFAULT_OUT ELSE out
        IN  /\ \A i \in 1..Len(manifest) : FileState(manifest[i]) = "full"
            /\ {manifest[i] : i \in 1..Len(manifest)} =
                  {FilePath(place, ext) : ext \in Requested}
            /\ \A i, j \in 1..Len(manifest) :
                  i < j => ExtRank(manifest[i].ext) < ExtRank(manifest[j].ext)

EmptyOrRoot == wk.out_dir = <<>> \/ PathStr(wk.out_dir) = <<"/">>

\* C5: an out_dir that is empty or the filesystem root sends every file
\* under DEFAULT_OUT (never the working directory or the root); any other
\* out_dir receives the files itself, is created with its parents, and
\* raises nothing when it exists already.
C5_DirectoryResolution ==
    /\ EmptyOrRoot =>
          \A i \in 1..Len(attempts) : attempts[i].path.dir = DEFAULT_OUT
    /\ ~EmptyOrRoot =>
          \A i \in 1..Len(attempts) :
              attempts[i].phase = "primary" =>
                  attempts[i].path.dir = PathStr(wk.out_dir)
    /\ (wkPc = "load" \/ Has(emitted, "progress")) =>
          MkdirSet(out) \subseteq dirs
    /\ (wkPc = "fail" /\ emitted = <<>>) => out \notin dirs

\* C5 without the empty string: what the code does for every other out_dir.
ResolutionOfNonEmpty ==
    wk.out_dir # <<>> => C5_DirectoryResolution
(***************************************************************************)
(* App (src/gui_transcribe.py:143-249) with its worker                     *)
(*                                                                         *)
(* Qt delivers clicked only while the button is enabled, and delivers the  *)
(* worker's signals to the UI thread in the order they were emitted.       *)
(* Cancelled dialogs and the clicks without a file change nothing but the  *)
(* log, which is not modelled.                                             *)
(***************************************************************************)
\* the directories the dialogs can return
GuiDirs == {<<"/">>, <<"/", "d">>}

\* start_run without line 226
BtnAfterStart_StillEnabled == TRUE

\* line 226: self.btn_run.setEnabled(False)
BtnAfterStart == FALSE

\* finish_fail without line 249
BtnAfterFail_StillDisabled == FALSE

\* line 249: self.btn_run.setEnabled(True)
BtnAfterFail == TRUE

wkUnch ==
    UNCHANGED <<wk, wkPc, out, attempts, emitted, manifest, dirs,
                defaultWritable>>

\* App.__init__, lines 198-201
AppInit ==
    /\ audio_path = <<>>
    /\ user_chose_out_dir = FALSE
    /\ out_dir = DEFAULT_OUT
    /\ dirs = BaseDirs \cup MkdirSet(DEFAULT_OUT) \cup GuiDirs
    /\ btn_enabled = TRUE
    /\ inFlight = 0 /\ queue = <<>>
    /\ wk = NoWorker /\ wkPc = "idle" /\ out = <<>>
    /\ attempts = <<>> /\ emitted = <<>> /\ manifest = <<>>
    /\ defaultWritable \in BOOLEAN
    /\ FmtIdle /\ SrtIdle /\ CfgIdle

\* lines 203-213, a file chosen in directory d
choose_file ==
    /\ \E d \in GuiDirs :
          /\ audio_path' = d
          /\ out_dir' = IF user_chose_out_dir THEN out_dir ELSE PathStr(d)
    /\ UNCHANGED <<user_chose_out_dir, btn_enabled, inFlight, queue>>
    /\ wkUnch /\ otherUnch

\* lines 215-220, a directory chosen
choose_out ==
    /\ \E d \in GuiDirs :
          /\ out_dir' = d
          /\ user_chose_out_dir' = TRUE
    /\ UNCHANGED <<audio_path, btn_enabled, inFlight, queue>>
    /\ wkUnch /\ otherUnch

\* lines 222-241, a click on the enabled button with a file selected
start_run ==
    /\ btn_enabled
    /\ audio_path # <<>>
    /\ btn_enabled' = BtnAfterStart
    /\ \E srt \in BOOLEAN, vtt \in BOOLEAN :
          wk' = [out_dir |-> out_dir, srt |-> srt, vtt |-> vtt]
    /\ wkPc' = "resolve"
    /\ out' = <<>>
    /\ attempts' = <<>> /\ emitted' = <<>> /\ manifest' = <<>>
    /\ inFlight' = inFlight + 1
    /\ UNCHANGED <<audio_path, out_dir, user_chose_out_dir, queue, dirs,
                   defaultWritable>>
    /\ otherUnch

\* progress is connected to self.log.append
DeliverProgress ==
    /\ queue # <<>> /\ Head(queue) = "progress"
    /\ queue' = Tail(queue)
    /\ UNCHANGED <<audio_path, out_dir, user_chose_out_dir, btn_enabled,
                   inFlight>>
    /\ wkUnch /\ otherUnch

\* lines 243-245
finish_ok ==
    /\ queue # <<>> /\ Head(queue) = "done"
    /\ queue' = Tail(queue)
    /\ btn_enabled' = TRUE
    /\ inFlight' = inFlight - 1
    /\ UNCHANGED <<audio_path, out_dir, user_chose_out_dir>>
    /\ wkUnch /\ otherUnch

\* lines 247-249
finish_fail ==
    /\ queue # <<>> /\ Head(queue) = "failed"
    /\ queue' = Tail(queue)
    /\ btn_enabled' = BtnAfterFail
    /\ inFlight' = inFlight - 1
    /\ UNCHANGED <<audio_path, out_dir, user_chose_out_dir>>
    /\ wkUnch /\ otherUnch

\* somebody removes a directory the App found or made
EnvRmdir ==
    /\ \E d \in {DEFAULT_OUT, <<"/", "d">>} :
          /\ d \in dirs
          /\ dirs' = dirs \ {d}
    /\ UNCHANGED <<wk, wkPc, out, attempts, emitted, manifest,
                   defaultWritable>>
    /\ UNCHANGED appVars /\ otherUnch

UiStep == DeliverProgress \/ finish_ok \/ finish_fail

GuiNext ==
    \/ choose_file \/ choose_out \/ start_run
    \/ UiStep
    \/ WorkerStep
    \/ EnvRmdir

SpecGui == AppInit /\ [][GuiNext]_vars

\* The worker thread runs while it has steps, every external call returns or
\* raises, and the event loop delivers the queued signals.
LiveGui == SpecGui /\ WF_vars(WorkerStep) /\ WF_vars(UiStep)
(***************************************************************************)
(* Properties of the App                                                   *)
(***************************************************************************)
\* C3: at most one transcription request is in flight per App: no worker is
\* started while an earlier one has not had its done or failed delivered to
\* finish_ok / finish_fail, and the button stays disabled meanwhile.
C3_AtMostOneInFlight ==
    /\ inFlight <= 1
    /\ btn_enabled => inFlight = 0

\* the worker has ended and its last signal waits in the queue, while the
\* user has already picked another output folder
C3_Witness ==
    /\ inFlight = 1
    /\ wkPc = "finished"
    /\ queue # <<>>
    /\ user_chose_out_dir
    /\ out_dir # wk.out_dir

IsTerminal(k) == k \in {"done", "failed"}

TerminalCount == Cardinality({i \in 1..Len(emitted) : IsTerminal(emitted[i])})

\* exactly one of done and failed once run() has ended, none before, and
\* nothing after it
OneTerminalSignal ==
    /\ TerminalCount <= 1
    /\ \A i \in 1..Len(emitted) : IsTerminal(emitted[i]) => i = Len(emitted)
    /\ wkPc = "finished" => TerminalCount = 1
    /\ wkPc \notin {"idle", "finished"} => TerminalCount = 0

Running == wkPc \notin {"idle", "finished"}

\* C9: every run started by start_run ends: the worker emits exactly one of
\* done and failed, no progress after it, and the button start_run disabled
\* is enabled again, whatever step failed.
C9_RunEndsAndButtonReturns ==
    /\ []OneTerminalSignal
    /\ Running ~> (wkPc = "finished")
    /\ (~btn_enabled) ~> btn_enabled

\* a run whose fallback write failed has reported failed and the button is
\* enabled again
C9_Witness ==
    /\ wkPc = "finished"
    /\ FallbackError
    /\ emitted[Len(emitted)] = "failed"
    /\ queue = <<>>
    /\ btn_enabled
    /\ inFlight = 0
====
